---------------------------- MODULE Spec2Model ----------------------------
(***************************************************************************)
(* A model of scripts/produce.py: the batch accumulator (MessageBatch),    *)
(* the connection pool (KafkaProducerPool) and the publisher               *)
(* (EnhancedKafkaProducer) with its metrics (ProducerMetrics).             *)
(*                                                                         *)
(* Three specifications share the variables:                               *)
(*   SpecBatch  the accumulator alone, driven by add / should_flush /      *)
(*              flush / size calls and the passage of time;                *)
(*   SpecPool   the pool alone, driven by entering and leaving             *)
(*              get_producer and by close;                                 *)
(*   Spec       one publisher used from one thread: send, flush,           *)
(*              print_metrics and close, every step of flush's retry loop  *)
(*              being a step of the model.                                 *)
(***************************************************************************)
EXTENDS Integers, Sequences, FiniteSets

\* ------------------------------------------------------------------------
\* Bounds of the model
\* ------------------------------------------------------------------------

\* largest configured batch_size explored
MaxBatchSize == 2

\* largest configured max_retries explored
MaxRetries == 2

\* largest configured connection_pool_size explored
MaxPoolSize == 2

\* the clock (milliseconds) stops advancing here in Spec
MaxClock == 3

\* the clock (milliseconds) stops advancing here in SpecBatch
MaxBatchClock == 4

\* send calls per behaviour of Spec, add calls per behaviour of SpecBatch
MaxSends == 2

\* KafkaProducer(...) calls per behaviour
MaxConns == 4

\* the largest max_retries of SpecRetry
MaxFlushRetries == 4

\* ------------------------------------------------------------------------
\* Values
\* ------------------------------------------------------------------------

\* Python's None
None == "None"

\* ProducerConfig.topic
DefaultTopic == "entropic-topic"

\* the configured batch_timeout_ms explored, in clock units
BatchTimeoutMs == 2

\* the configured retry_backoff_ms explored, in clock units
RetryBackoffMs == 1

\* the configurations explored: ProducerConfig
Configs ==
    [ batch_size           : 1..MaxBatchSize,
      batch_timeout_ms     : {BatchTimeoutMs},
      max_retries          : 0..MaxRetries,
      retry_backoff_ms     : {RetryBackoffMs},
      connection_pool_size : 1..MaxPoolSize,
      topic                : {DefaultTopic} ]

\* ------------------------------------------------------------------------
\* Exceptions: the classes the handlers of produce.py tell apart
\* ------------------------------------------------------------------------

\* the base classes of an exception class (itself included)
Bases(cls) ==
    CASE cls = "KafkaTimeoutError" -> {"KafkaTimeoutError", "KafkaError", "Exception"}
      [] cls = "KafkaError"        -> {"KafkaError", "Exception"}
      [] cls = "TypeError"         -> {"TypeError", "Exception"}
      [] cls = "IndexError"        -> {"IndexError", "Exception"}
      [] OTHER                     -> {"Exception"}

\* whether `except cls:` catches an exception of class exc
Catches(cls, exc) == cls \in Bases(exc)

\* ------------------------------------------------------------------------
\* Serialization (send, lines 383-386)
\* ------------------------------------------------------------------------

\* the decimal digits of a natural number, as characters
RECURSIVE Digits(_)
Digits(n) ==
    LET d == <<"0", "1", "2", "3", "4", "5", "6", "7", "8", "9">>[(n % 10) + 1]
    IN  IF n < 10 THEN <<d>> ELSE Digits(n \div 10) \o <<d>>

\* the messages handed to send: the dicts {"id": 42} and
\* {"id": object()} (a value json cannot encode), and the str "h\u00e9"
Payloads ==
    { [type |-> "dict", kind |-> "int",    id |-> 7,  text |-> <<>>],
      [type |-> "dict", kind |-> "int",    id |-> 42, text |-> <<>>],
      [type |-> "dict", kind |-> "object", id |-> 0,  text |-> <<>>],
      [type |-> "str",  kind |-> "str",    id |-> 0,  text |-> <<"h", "U+00E9">>] }

\* json.dumps of the dict {"id": v}: the text, or the exception it raises
JsonDumps(m) ==
    IF m.kind = "int"
    THEN [ok |-> TRUE, exc |-> None,
          text |-> <<"{", "\"", "i", "d", "\"", ":", " ">> \o Digits(m.id) \o <<"}">>]
    ELSE [ok |-> FALSE, exc |-> "TypeError", text |-> <<>>]

\* the (message, topic) arguments send is called with
SendArgs ==
    { <<[type |-> "dict", kind |-> "int",    id |-> 42, text |-> <<>>], None>>,
      <<[type |-> "dict", kind |-> "object", id |-> 0,  text |-> <<>>], None>>,
      <<[type |-> "str",  kind |-> "str",    id |-> 0,  text |-> <<"h", "U+00E9">>],
        "other-topic">> }

\* the number of bytes str.encode('utf-8') yields for one character
Utf8Len(ch) == IF ch = "U+00E9" THEN 2 ELSE 1

\* str.encode('utf-8'): one element per byte, the character it encodes kept
RECURSIVE EncodeUtf8(_)
EncodeUtf8(s) ==
    IF s = <<>> THEN <<>>
    ELSE [i \in 1..Utf8Len(Head(s)) |-> <<Head(s), i>>] \o EncodeUtf8(Tail(s))

\* lines 383-386: the bytes of a message, or the exception raised
Serialize(m) ==
    IF m.type = "dict"
    THEN LET j == JsonDumps(m)
         IN  [ok |-> j.ok, exc |-> j.exc, bytes |-> EncodeUtf8(j.text)]
    ELSE [ok |-> TRUE, exc |-> None, bytes |-> EncodeUtf8(m.text)]

\* ------------------------------------------------------------------------
\* State
\* ------------------------------------------------------------------------

VARIABLES
    cfg,              \* ProducerConfig (max_size / timeout_ms of the batch)
    clock,            \* time.time(), in milliseconds
    messages,         \* MessageBatch.messages
    last_flush_time,  \* MessageBatch.last_flush_time
    returned,         \* the list MessageBatch.flush returned last
    pool,             \* KafkaProducerPool.pool (a deque, left end first)
    conns,            \* every KafkaProducer created: id -> state
    held,             \* the connections a caller holds inside get_producer
    metrics,          \* ProducerMetrics
    pc,               \* where the publisher's thread is
    frame,            \* the locals of the running send / flush / close
    ret,              \* how the last call ended
    hist              \* history of the behaviour (never read by the program)

vars == <<cfg, clock, messages, last_flush_time, returned, pool, conns, held,
          metrics, pc, frame, ret, hist>>

batchVars == <<messages, last_flush_time, returned>>
poolVars == <<pool, conns, held>>


\* ------------------------------------------------------------------------
\* Metrics (ProducerMetrics, lines 62-75)
\* ------------------------------------------------------------------------

\* ProducerMetrics(start_time=t): every counter 0, end_time 0.0
NewMetrics(t) ==
    [ total_messages      |-> 0,
      successful_messages |-> 0,
      failed_messages     |-> 0,
      total_bytes         |-> 0,
      start_time          |-> t,
      end_time            |-> 0,
      batch_count         |-> 0,
      error_count         |-> 0,
      retry_count         |-> 0,
      connection_errors   |-> 0,
      timeout_errors      |-> 0 ]

\* ------------------------------------------------------------------------
\* MessageBatch (lines 257-312)
\* ------------------------------------------------------------------------

\* the topic send hands to the batch, line 378
ResolveTopic(topic, c) == IF topic = None THEN c.topic ELSE topic

\* the entries handed to MessageBatch.add in SpecBatch: (topic, message bytes)
Entries ==
    { <<ResolveTopic(None, [topic |-> DefaultTopic]),
        Serialize([type |-> "dict", kind |-> "int", id |-> 42, text |-> <<>>]).bytes>>,
      <<ResolveTopic("other-topic", [topic |-> DefaultTopic]),
        Serialize([type |-> "str", kind |-> "str", id |-> 0, text |-> <<"h", "U+00E9">>]).bytes>> }

\* a Python list as a caller sees it: its items, and whether it is the very
\* list object MessageBatch.messages (a later append or clear then shows in it)
ListCopy(items) == [alias |-> FALSE, items |-> items]
ListSame(items) == [alias |-> TRUE, items |-> items]

\* should_flush, lines 287-296
should_flush_size_off_by_one(msgs, last, now, c) ==
    IF Len(msgs) > c.batch_size THEN TRUE
    ELSE IF (now - last) >= c.batch_timeout_ms THEN TRUE
    ELSE FALSE

should_flush(msgs, last, now, c) ==
    IF Len(msgs) >= c.batch_size THEN TRUE
    ELSE LET elapsed_ms == now - last
         IN  IF elapsed_ms >= c.batch_timeout_ms THEN TRUE
             ELSE FALSE

\* add, lines 284-285: the batch after the append and the value returned
batch_add(msgs, last, now, c, topic, message) ==
    LET appended == Append(msgs, <<topic, message>>)
    IN  [ messages        |-> appended,
          last_flush_time |-> last,
          result          |-> should_flush(appended, last, now, c) ]

\* flush, lines 300-303: the batch after the drain and the list returned
batch_flush_no_copy(msgs, now) ==
    [ messages |-> <<>>, last_flush_time |-> now, result |-> ListSame(<<>>) ]

batch_flush(msgs, now) ==
    [ messages        |-> <<>>,
      last_flush_time |-> now,
      result          |-> ListCopy(msgs) ]

\* size, line 307
batch_size(msgs) == Len(msgs)

\* what a list handed out earlier shows once MessageBatch.messages is msgs
Seen(list, msgs) == IF list.alias THEN ListSame(msgs) ELSE list

\* ------------------------------------------------------------------------
\* KafkaProducerPool (lines 183-250)
\* ------------------------------------------------------------------------

\* `producer = None`, line 226
NoProducer == 0

\* how a KafkaProducer(...) call can end: a connection, NoBrokersAvailable (a
\* KafkaError), or any other exception
CreateOutcomes == {"ok", "KafkaError", "Exception"}

\* entering get_producer, lines 226-235 (and 236-241 when the creation
\* raises): the pool and the connections afterwards, the producer yielded
\* (NoProducer when the call raised), the exception that leaves
\* get_producer, the number of KafkaProducer(...) calls made
pool_acquire_lifo(p, cs, outcome) ==
    IF p # <<>>
    THEN [ pool |-> SubSeq(p, 1, Len(p) - 1), conns |-> cs, producer |-> p[Len(p)],
           exc |-> None, created |-> 0 ]
    ELSE [ pool |-> p, conns |-> Append(cs, [close_calls |-> 0]),
           producer |-> Len(cs) + 1, exc |-> None, created |-> 1 ]

pool_acquire(p, cs, outcome) ==
    IF p # <<>>
    THEN [ pool |-> Tail(p), conns |-> cs, producer |-> Head(p),
           exc |-> None, created |-> 0 ]
    ELSE IF outcome = "ok"
    THEN [ pool |-> p, conns |-> Append(cs, [close_calls |-> 0]),
           producer |-> Len(cs) + 1, exc |-> None, created |-> 1 ]
    ELSE [ pool |-> p, conns |-> cs, producer |-> NoProducer,
           exc |-> outcome, created |-> 1 ]

\* leaving get_producer, lines 239-241
pool_release_none(p, producer) == p

pool_release(p, producer) ==
    IF producer # NoProducer THEN Append(p, producer) ELSE p

\* the elements of a sequence
Range(q) == {q[k] : k \in 1..Len(q)}

\* KafkaProducerPool.close, lines 243-250: every idle connection is taken
\* out and closed; the close of those in `failing` raises, which is logged
pool_close_stops_at_failure(p, cs, failing) ==
    LET bad  == {k \in 1..Len(p) : p[k] \in failing}
        last == IF bad = {} THEN Len(p)
                ELSE CHOOSE k \in bad : \A j \in bad : k <= j
        done == {p[k] : k \in 1..last}
    IN  [ pool   |-> SubSeq(p, last + 1, Len(p)),
          conns  |-> [i \in 1..Len(cs) |->
                        IF i \in done
                        THEN [cs[i] EXCEPT !.close_calls = @ + 1]
                        ELSE cs[i]],
          logged |-> 0 ]

pool_close(p, cs, failing) ==
    [ pool   |-> <<>>,
      conns  |-> [i \in 1..Len(cs) |->
                    IF i \in Range(p)
                    THEN [cs[i] EXCEPT !.close_calls = @ + 1]
                    ELSE cs[i]],
      logged |-> Cardinality(failing \cap Range(p)) ]

\* a sequence without the element x
RECURSIVE Without(_, _)
Without(q, x) ==
    IF q = <<>> THEN <<>>
    ELSE IF Head(q) = x THEN Without(Tail(q), x)
    ELSE <<Head(q)>> \o Without(Tail(q), x)

\* ------------------------------------------------------------------------
\* EnhancedKafkaProducer (lines 319-505): the code between two calls out
\* ------------------------------------------------------------------------

\* 2 ** n, line 457
RECURSIVE Pow2(_)
Pow2(n) == IF n = 0 THEN 1 ELSE 2 * Pow2(n - 1)

\* in ret: no flush ran inside the call
NoFlush == -1

\* send up to the call of flush, lines 378-395: the metrics and the batch
\* afterwards, the exception raised inside the try (None when none), and
\* whether flush is to be called
send_prepare_no_flush(m, topic, mt, msgs, last, now, c) ==
    LET mt1 == [mt EXCEPT !.total_messages = @ + 1]
        s   == Serialize(m)
    IN  IF ~s.ok
        THEN [ metrics |-> mt1, messages |-> msgs, exc |-> s.exc, flush |-> FALSE ]
        ELSE [ metrics  |-> [mt1 EXCEPT !.total_bytes = @ + Len(s.bytes)],
               messages |-> Append(msgs, <<ResolveTopic(topic, c), s.bytes>>),
               exc |-> None, flush |-> FALSE ]

send_prepare_count_chars(m, topic, mt, msgs, last, now, c) ==
    LET mt1 == [mt EXCEPT !.total_messages = @ + 1]
        s   == Serialize(m)
        txt == IF m.type = "dict" THEN JsonDumps(m).text ELSE m.text
    IN  IF ~s.ok
        THEN [ metrics |-> mt1, messages |-> msgs, exc |-> s.exc, flush |-> FALSE ]
        ELSE LET r == batch_add(msgs, last, now, c, ResolveTopic(topic, c), s.bytes)
             IN  [ metrics  |-> [mt1 EXCEPT !.total_bytes = @ + Len(txt)],
                   messages |-> r.messages, exc |-> None, flush |-> r.result ]

send_prepare(m, topic, mt, msgs, last, now, c) ==
    LET t   == ResolveTopic(topic, c)
        mt1 == [mt EXCEPT !.total_messages = @ + 1]
        s   == Serialize(m)
    IN  IF ~s.ok
        THEN [ metrics |-> mt1, messages |-> msgs, exc |-> s.exc, flush |-> FALSE ]
        ELSE LET mt2 == [mt1 EXCEPT !.total_bytes = @ + Len(s.bytes)]
                 r   == batch_add(msgs, last, now, c, t, s.bytes)
             IN  [ metrics |-> mt2, messages |-> r.messages, exc |-> None,
                   flush |-> r.result ]

\* send's handler, lines 400-404: whether it catches exc, and the metrics
\* afterwards
send_except_no_failed(exc, mt) ==
    [ caught |-> Catches("Exception", exc), metrics |-> [mt EXCEPT !.error_count = @ + 1] ]

send_except(exc, mt) ==
    IF Catches("Exception", exc)
    THEN [ caught  |-> TRUE,
           metrics |-> [mt EXCEPT !.failed_messages = @ + 1, !.error_count = @ + 1] ]
    ELSE [ caught |-> FALSE, metrics |-> mt ]

\* flush after the drain, lines 415-419: whether it returns 0 at once, and
\* the metrics afterwards
flush_begin_counts_empty(drained, mt) ==
    [ empty |-> drained = <<>>, metrics |-> [mt EXCEPT !.batch_count = @ + 1] ]

flush_begin(drained, mt) ==
    IF drained = <<>>
    THEN [ empty |-> TRUE, metrics |-> mt ]
    ELSE [ empty |-> FALSE, metrics |-> [mt EXCEPT !.batch_count = @ + 1] ]

\* how producer.send(topic, value=...) can end: a future, a KafkaError
\* (connection-level), or any other exception
SubmitOutcomes == {"ok", "KafkaError", "Exception"}

\* how future.get(timeout=10) can end: record metadata, or an exception
AwaitOutcomes == {"success", "KafkaTimeoutError", "KafkaError", "Exception"}

\* one pass of the await loop, lines 432-448: the metrics and flushed_count
\* afterwards, and the exception that leaves the inner try (None when none)
await_result_error_first(outcome, mt, flushed) ==
    IF outcome = "success"
    THEN [ metrics |-> [mt EXCEPT !.successful_messages = @ + 1],
           flushed_count |-> flushed + 1, exc |-> None ]
    ELSE IF Catches("KafkaError", outcome)
    THEN [ metrics |-> [mt EXCEPT !.failed_messages = @ + 1, !.error_count = @ + 1],
           flushed_count |-> flushed, exc |-> None ]
    ELSE [ metrics |-> mt, flushed_count |-> flushed, exc |-> outcome ]

await_result_both_handlers(outcome, mt, flushed) ==
    IF outcome = "success"
    THEN [ metrics |-> [mt EXCEPT !.successful_messages = @ + 1],
           flushed_count |-> flushed + 1, exc |-> None ]
    ELSE IF Catches("KafkaTimeoutError", outcome)
    THEN [ metrics |-> [mt EXCEPT !.timeout_errors = @ + 1, !.failed_messages = @ + 2,
                                  !.error_count = @ + 1],
           flushed_count |-> flushed, exc |-> None ]
    ELSE IF Catches("KafkaError", outcome)
    THEN [ metrics |-> [mt EXCEPT !.failed_messages = @ + 1, !.error_count = @ + 1],
           flushed_count |-> flushed, exc |-> None ]
    ELSE [ metrics |-> mt, flushed_count |-> flushed, exc |-> outcome ]

await_result(outcome, mt, flushed) ==
    IF outcome = "success"
    THEN [ metrics |-> [mt EXCEPT !.successful_messages = @ + 1],
           flushed_count |-> flushed + 1, exc |-> None ]
    ELSE IF Catches("KafkaTimeoutError", outcome)
    THEN [ metrics |-> [mt EXCEPT !.timeout_errors = @ + 1, !.failed_messages = @ + 1],
           flushed_count |-> flushed, exc |-> None ]
    ELSE IF Catches("KafkaError", outcome)
    THEN [ metrics |-> [mt EXCEPT !.failed_messages = @ + 1, !.error_count = @ + 1],
           flushed_count |-> flushed, exc |-> None ]
    ELSE [ metrics |-> mt, flushed_count |-> flushed, exc |-> outcome ]

\* the handlers of the retry loop, lines 454-468, for an exception that left
\* the with block in pass `attempt`: the metrics afterwards, whether the loop
\* goes on ("continue"), is left ("break") or the exception leaves flush
\* ("raise"), and the time slept (milliseconds; wait_time is in seconds)
flush_except_always_retry(exc, attempt, mt, c) ==
    IF Catches("KafkaError", exc)
    THEN [ metrics |-> [mt EXCEPT !.connection_errors = @ + 1, !.retry_count = @ + 1],
           next |-> "continue",
           sleeps |-> <<c.retry_backoff_ms * Pow2(attempt)>> ]
    ELSE [ metrics |-> [mt EXCEPT !.error_count = @ + 1],
           next |-> "break", sleeps |-> <<>> ]

flush_except_kafka_only(exc, attempt, mt, c) ==
    IF Catches("KafkaError", exc)
    THEN LET mt1 == [mt EXCEPT !.connection_errors = @ + 1]
         IN  IF attempt < c.max_retries - 1
             THEN [ metrics |-> [mt1 EXCEPT !.retry_count = @ + 1],
                    next |-> "continue",
                    sleeps |-> <<c.retry_backoff_ms * Pow2(attempt)>> ]
             ELSE [ metrics |-> mt1, next |-> "continue", sleeps |-> <<>> ]
    ELSE [ metrics |-> mt, next |-> "raise", sleeps |-> <<>> ]

flush_except_retry_unexpected(exc, attempt, mt, c) ==
    IF Catches("KafkaError", exc)
    THEN LET mt1 == [mt EXCEPT !.connection_errors = @ + 1]
         IN  IF attempt < c.max_retries - 1
             THEN [ metrics |-> [mt1 EXCEPT !.retry_count = @ + 1],
                    next |-> "continue",
                    sleeps |-> <<c.retry_backoff_ms * Pow2(attempt)>> ]
             ELSE [ metrics |-> mt1, next |-> "continue", sleeps |-> <<>> ]
    ELSE [ metrics |-> [mt EXCEPT !.error_count = @ + 1],
           next |-> "continue", sleeps |-> <<>> ]

flush_except_constant_backoff(exc, attempt, mt, c) ==
    IF Catches("KafkaError", exc)
    THEN LET mt1 == [mt EXCEPT !.connection_errors = @ + 1]
         IN  IF attempt < c.max_retries - 1
             THEN [ metrics |-> [mt1 EXCEPT !.retry_count = @ + 1],
                    next |-> "continue",
                    sleeps |-> <<c.retry_backoff_ms>> ]
             ELSE [ metrics |-> mt1, next |-> "continue", sleeps |-> <<>> ]
    ELSE [ metrics |-> [mt EXCEPT !.error_count = @ + 1],
           next |-> "break", sleeps |-> <<>> ]

flush_except(exc, attempt, mt, c) ==
    IF Catches("KafkaError", exc)
    THEN LET mt1 == [mt EXCEPT !.connection_errors = @ + 1]
         IN  IF attempt < c.max_retries - 1
             THEN [ metrics |-> [mt1 EXCEPT !.retry_count = @ + 1],
                    next |-> "continue",
                    sleeps |-> <<c.retry_backoff_ms * Pow2(attempt)>> ]
             ELSE [ metrics |-> mt1, next |-> "continue", sleeps |-> <<>> ]
    ELSE IF Catches("Exception", exc)
    THEN [ metrics |-> [mt EXCEPT !.error_count = @ + 1],
           next |-> "break", sleeps |-> <<>> ]
    ELSE [ metrics |-> mt, next |-> "raise", sleeps |-> <<>> ]

\* close's handler, line 504: whether it catches exc
close_except(exc) == Catches("Exception", exc)

\* print_metrics, line 478
print_metrics(mt, now) == [mt EXCEPT !.end_time = now]

\* ------------------------------------------------------------------------
\* Initial states
\* ------------------------------------------------------------------------

\* the locals of flush when no flush runs
NoFrame ==
    [ caller        |-> None,   \* the call that called flush: send, flush (the
                                \* application) or close
      bytes         |-> 0,      \* send: len(message_bytes)
      attempt       |-> 0,      \* flush: attempt
      flushed_count |-> 0,      \* flush: flushed_count
      submitted     |-> 0,      \* flush: len(futures)
      awaited       |-> 0 ]     \* flush: futures the await loop has passed

\* the history of one send call: whether the message could be serialized,
\* whether the batch was due once the message was in it, and the metrics and
\* the batch when send was called
SendHist(ok, due, mt, msgs) == [ok |-> ok, due |-> due, pre |-> mt, messages |-> msgs]

NoSend == SendHist(TRUE, FALSE, NewMetrics(0), <<>>)

\* the history of one flush call
FlushHist(mt, drained) ==
    [ pre      |-> mt,       \* the metrics when flush was entered
      n        |-> Len(drained),  \* the number of entries it drained
      attempts |-> 0,        \* passes of the retry loop begun
      acquired |-> <<>>,     \* the connections get_producer yielded, in order
      excs     |-> <<>>,     \* the exceptions that ended a pass, in order
      outcomes |-> <<>>,     \* how each awaited future ended, in order
      ids      |-> <<>>,     \* per drained entry, the send call it came from
      submits  |-> [k \in 1..Len(drained) |-> 0],
                             \* per drained entry, the producer.send calls
                             \* that returned a future for it
      sleeps   |-> <<>> ]    \* the time.sleep arguments, in milliseconds

\* the history at construction
NoHist(c, t) ==
    [ drainClock |-> t,      \* the clock at the last drain (at construction)
      added      |-> <<>>,   \* the entries added since the last drain
      drained    |-> <<>>,   \* the entries the last drain took
      sends      |-> 0,      \* send calls so far
      ids        |-> <<>>,   \* per entry of the batch, the send call (by its
                             \* rank among the send calls) it came from
      counted    |-> <<>>,   \* per send call, what successful_messages and
                             \* failed_messages gained on account of its message
      idleOrder  |-> [i \in 1..c.connection_pool_size |-> i],
                             \* the idle connections, the longest idle first
      runIdle    |-> c.connection_pool_size,
                             \* connections idle when the last release ended
      runAcquires |-> 0,     \* get_producer entries since the last release
      runCreated |-> 0,      \* KafkaProducer(...) calls made by those entries
      ctorCalls  |-> c.connection_pool_size,
                             \* KafkaProducer(...) calls so far
      acceptedBytes |-> 0,   \* bytes of the messages send returned True for
      snd        |-> NoSend, \* the send call running, or just ended
      closed     |-> FALSE,  \* close has returned at least once
      fl         |-> FlushHist(NewMetrics(t), <<>>) ]
                             \* the flush running, or the one that ended last

\* the history once the counters went from `before` to `after` on account of
\* the message of send call id
Attribute(h, id, before, after) ==
    [h EXCEPT !.counted[id].ok =
                  @ + after.successful_messages - before.successful_messages,
              !.counted[id].failed =
                  @ + after.failed_messages - before.failed_messages]

\* the state once EnhancedKafkaProducer(config) has returned (lines 322-341,
\* 186-221, 260-271): pool_size connections idle, an empty batch opened now
Constructed(c, t) ==
    /\ cfg = c
    /\ clock = t
    /\ messages = <<>>
    /\ last_flush_time = t
    /\ returned = ListCopy(<<>>)
    /\ pool = [i \in 1..c.connection_pool_size |-> i]
    /\ conns = [i \in 1..c.connection_pool_size |-> [close_calls |-> 0]]
    /\ held = {}
    /\ metrics = NewMetrics(t)
    /\ pc = "idle"
    /\ frame = NoFrame
    /\ ret = [op |-> "init", value |-> 0, raised |-> None, flush |-> NoFlush]
    /\ hist = NoHist(c, t)

\* time passes, up to a bound
TickTo(bound) ==
    /\ clock < bound
    /\ clock' = clock + 1
    /\ UNCHANGED <<cfg, batchVars, poolVars, metrics, pc, frame, ret, hist>>

\* the values time.time() can return to the publisher: the clock does not
\* run backwards. The publisher reads it in send (line 391, through add), at
\* the drain (line 413) and in print_metrics (line 478); the time that has
\* passed since the last of these shows at the next one.
Times == clock..MaxClock

\* time passes between two calls on the accumulator
BatchTick == TickTo(MaxBatchClock)

\* ------------------------------------------------------------------------
\* SpecBatch: the accumulator alone
\* ------------------------------------------------------------------------

InitBatch ==
    \E c \in Configs :
        /\ c.max_retries = 0
        /\ c.connection_pool_size = 1
        /\ Constructed(c, 1)

\* MessageBatch.add(topic, message)
BatchAdd ==
    \E e \in Entries :
        LET r == batch_add(messages, last_flush_time, clock, cfg, e[1], e[2])
        IN  /\ Len(messages) < MaxSends
            /\ messages' = r.messages
            /\ last_flush_time' = r.last_flush_time
            /\ returned' = Seen(returned, r.messages)
            /\ ret' = [op |-> "add", value |-> r.result, at |-> clock]
            /\ hist' = [hist EXCEPT !.added = Append(@, e)]
            /\ UNCHANGED <<cfg, clock, poolVars, metrics, pc, frame>>

\* MessageBatch.should_flush()
BatchShouldFlush ==
    /\ ret' = [op |-> "should_flush",
               value |-> should_flush(messages, last_flush_time, clock, cfg),
               at |-> clock]
    /\ UNCHANGED <<cfg, clock, batchVars, poolVars, metrics, pc, frame, hist>>

\* MessageBatch.flush()
BatchFlush ==
    LET r == batch_flush(messages, clock)
    IN  /\ messages' = r.messages
        /\ last_flush_time' = r.last_flush_time
        /\ returned' = Seen(r.result, r.messages)
        /\ ret' = [op |-> "flush", at |-> clock]
        /\ hist' = [hist EXCEPT !.added = <<>>, !.drained = hist.added,
                                !.drainClock = clock]
        /\ UNCHANGED <<cfg, clock, poolVars, metrics, pc, frame>>

\* MessageBatch.size()
BatchSize ==
    /\ ret' = [op |-> "size", value |-> batch_size(messages), after |-> ret.op]
    /\ UNCHANGED <<cfg, clock, batchVars, poolVars, metrics, pc, frame, hist>>

NextBatch == BatchAdd \/ BatchShouldFlush \/ BatchFlush \/ BatchSize \/ BatchTick

SpecBatch == InitBatch /\ [][NextBatch]_vars

\* ------------------------------------------------------------------------
\* SpecPool: the pool alone
\* ------------------------------------------------------------------------

InitPool ==
    \E c \in Configs :
        /\ c.max_retries = 0
        /\ c.batch_size = 1
        /\ Constructed(c, 1)

\* a caller enters `with pool.get_producer() as producer`
PoolAcquire ==
    \E outcome \in CreateOutcomes :
        LET r == pool_acquire(pool, conns, outcome)
        IN  /\ pool = <<>> => hist.ctorCalls < MaxConns
            /\ pool # <<>> => outcome = "ok"
            /\ pool' = r.pool
            /\ conns' = r.conns
            /\ held' = IF r.producer # NoProducer THEN held \cup {r.producer} ELSE held
            /\ ret' = [ op |-> "acquire", value |-> r.producer, exc |-> r.exc,
                        created |-> r.created, idle_before |-> Len(pool),
                        oldest |-> IF hist.idleOrder # <<>> THEN Head(hist.idleOrder)
                                   ELSE NoProducer ]
            /\ hist' = [hist EXCEPT !.idleOrder = Without(@, r.producer),
                                    !.runAcquires = @ + 1,
                                    !.runCreated = @ + r.created,
                                    !.ctorCalls = @ + r.created]
            /\ UNCHANGED <<cfg, clock, batchVars, metrics, pc, frame>>

\* a caller leaves the with block (normally or by an exception)
PoolRelease ==
    \E c \in held :
        /\ pool' = pool_release(pool, c)
        /\ held' = held \ {c}
        /\ ret' = [op |-> "release", value |-> c]
        /\ hist' = [hist EXCEPT !.idleOrder = Append(@, c),
                                !.runIdle = Len(pool'),
                                !.runAcquires = 0,
                                !.runCreated = 0]
        /\ UNCHANGED <<cfg, clock, batchVars, conns, metrics, pc, frame>>

\* KafkaProducerPool.close()
PoolClose ==
    \E failing \in SUBSET Range(pool) :
        LET r == pool_close(pool, conns, failing)
        IN  /\ pool' = r.pool
            /\ conns' = r.conns
            /\ ret' = [op |-> "close", value |-> Len(pool), logged |-> r.logged]
            /\ hist' = [hist EXCEPT !.idleOrder = <<>>,
                                    !.runIdle = 0,
                                    !.runAcquires = 0,
                                    !.runCreated = 0]
            /\ UNCHANGED <<cfg, clock, batchVars, held, metrics, pc, frame>>

NextPool == PoolAcquire \/ PoolRelease \/ PoolClose

SpecPool == InitPool /\ [][NextPool]_vars

\* ------------------------------------------------------------------------
\* Spec: one publisher, one thread
\* ------------------------------------------------------------------------

Init == \E c \in Configs : Constructed(c, 1)

\* ret while a call runs
Running == [op |-> "running", value |-> 0, raised |-> None, flush |-> NoFlush]

\* how a call ended: its name, the value returned, the exception that left
\* it (None when it returned), the value of the flush call it made
Ended(op, value, raised, flush) ==
    [op |-> op, value |-> value, raised |-> raised, flush |-> flush]

\* the history once a new call starts
NewCall(h) == [h EXCEPT !.fl = FlushHist(NewMetrics(0), <<>>), !.snd = NoSend]

\* the connection held inside the with block
Producer == CHOOSE c \in held : TRUE

\* send(message, topic): lines 378-404, up to the call of flush
Send ==
    \E a \in SendArgs, now \in Times :
        LET m == a[1]
            t == a[2]
            r == send_prepare(m, t, metrics, messages, last_flush_time, now, cfg)
            e == send_except(r.exc, r.metrics)
            n == Len(Serialize(m).bytes)
            id == hist.sends + 1
            h0 == [NewCall(hist) EXCEPT
                     !.sends = id,
                     !.ids = IF r.exc = None THEN Append(@, id) ELSE @,
                     !.counted = Append(@, [ok |-> 0, failed |-> 0]),
                     !.snd = SendHist(Serialize(m).ok,
                                      \/ Len(messages) + 1 >= cfg.batch_size
                                      \/ now - hist.drainClock >= cfg.batch_timeout_ms,
                                      metrics, messages)]
            h == Attribute(h0, id, metrics, IF r.exc # None THEN e.metrics ELSE r.metrics)
        IN  /\ pc = "idle"
            /\ hist.sends < MaxSends
            /\ clock' = now
            /\ messages' = r.messages
            /\ IF r.exc # None
               THEN /\ metrics' = e.metrics
                    /\ pc' = "idle"
                    /\ frame' = NoFrame
                    /\ ret' = IF e.caught THEN Ended("send", FALSE, None, NoFlush)
                              ELSE Ended("send", FALSE, r.exc, NoFlush)
                    /\ hist' = h
               ELSE IF r.flush
               THEN /\ metrics' = r.metrics
                    /\ pc' = "flush"
                    /\ frame' = [NoFrame EXCEPT !.caller = "send", !.bytes = n]
                    /\ ret' = Running
                    /\ hist' = h
               ELSE /\ metrics' = r.metrics
                    /\ pc' = "idle"
                    /\ frame' = NoFrame
                    /\ ret' = Ended("send", TRUE, None, NoFlush)
                    /\ hist' = [h EXCEPT !.acceptedBytes = @ + n]
            /\ UNCHANGED <<cfg, last_flush_time, returned, poolVars>>

\* the application calls flush()
FlushCall ==
    /\ pc = "idle"
    /\ pc' = "flush"
    /\ frame' = [NoFrame EXCEPT !.caller = "flush"]
    /\ ret' = Running
    /\ hist' = NewCall(hist)
    /\ UNCHANGED <<cfg, clock, batchVars, poolVars, metrics>>

\* the application calls close(): line 494 calls flush
CloseCall ==
    /\ pc = "idle"
    /\ pc' = "flush"
    /\ frame' = [NoFrame EXCEPT !.caller = "close"]
    /\ ret' = Running
    /\ hist' = NewCall(hist)
    /\ UNCHANGED <<cfg, clock, batchVars, poolVars, metrics>>

\* the application calls print_metrics(), lines 476-488
PrintMetrics ==
    \E now \in Times :
        /\ pc = "idle"
        /\ clock' = now
        /\ metrics' = print_metrics(metrics, now)
        /\ ret' = Ended("print_metrics", 0, None, NoFlush)
        /\ hist' = NewCall(hist)
        /\ UNCHANGED <<cfg, batchVars, poolVars, pc, frame>>

\* flush, lines 413-419: the drain, the early return, the batch counter
FlushEnter ==
    \E now \in Times :
        LET r   == batch_flush(messages, now)
            out == Seen(r.result, r.messages)
            b   == flush_begin(out.items, metrics)
        IN  /\ pc = "flush"
            /\ clock' = now
            /\ messages' = r.messages
            /\ last_flush_time' = r.last_flush_time
            /\ returned' = out
            /\ metrics' = b.metrics
            /\ pc' = IF b.empty THEN "return" ELSE "attempt"
            /\ hist' = [hist EXCEPT !.fl = [FlushHist(metrics, out.items)
                                                EXCEPT !.ids = hist.ids],
                                    !.ids = <<>>,
                                    !.drainClock = now]
            /\ UNCHANGED <<cfg, poolVars, frame, ret>>

\* an exception leaves flush (no handler of lines 454-468 caught it) with
\* the metrics mt: the caller's handler, if it has one
FlushRaises(exc, mt, h) ==
    LET e == send_except(exc, mt)
    IN  /\ pc' = "idle"
        /\ frame' = NoFrame
        /\ returned' = ListCopy(<<>>)
        /\ hist' = h
        /\ metrics' = IF frame.caller = "send" THEN e.metrics ELSE mt
        /\ ret' = CASE frame.caller = "send" ->
                         IF e.caught THEN Ended("send", FALSE, None, NoFlush)
                         ELSE Ended("send", FALSE, exc, NoFlush)
                    [] frame.caller = "close" ->
                         IF close_except(exc) THEN Ended("close", 0, None, NoFlush)
                         ELSE Ended("close", 0, exc, NoFlush)
                    [] OTHER -> Ended("flush", 0, exc, NoFlush)

\* an exception leaves the with block of line 423 in this pass; p is the
\* pool once get_producer's finally clause has run, h the history so far
Raised(exc, p, h) ==
    LET r  == flush_except(exc, frame.attempt, metrics, cfg)
        h1 == [h EXCEPT !.fl.excs = Append(@, exc), !.fl.sleeps = @ \o r.sleeps]
    IN  /\ pool' = p
        /\ held' = {}
        /\ IF r.next = "raise"
           THEN FlushRaises(exc, r.metrics, h1)
           ELSE /\ metrics' = r.metrics
                /\ pc' = IF r.next = "continue" THEN "attempt" ELSE "return"
                /\ frame' = [frame EXCEPT !.attempt = IF r.next = "continue"
                                                      THEN @ + 1 ELSE @,
                                          !.submitted = 0,
                                          !.awaited = 0]
                /\ returned' = returned
                /\ ret' = ret
                /\ hist' = h1

\* the head of the retry loop, lines 421-424: the loop ends when range() is
\* used up, else get_producer is entered
AttemptBegin ==
    /\ pc = "attempt"
    /\ IF frame.attempt >= cfg.max_retries
       THEN /\ pc' = "return"
            /\ UNCHANGED <<poolVars, returned, metrics, frame, ret, hist>>
       ELSE \E outcome \in CreateOutcomes :
               LET r == pool_acquire(pool, conns, outcome)
                   h == [hist EXCEPT !.fl.attempts = @ + 1,
                                     !.fl.acquired = IF r.producer # NoProducer
                                                     THEN Append(@, r.producer)
                                                     ELSE @,
                                     !.ctorCalls = @ + r.created]
               IN  /\ pool # <<>> => outcome = "ok"
                   /\ conns' = r.conns
                   /\ IF r.exc = None
                      THEN /\ pool' = r.pool
                           /\ held' = {r.producer}
                           /\ pc' = "submit"
                           /\ frame' = [frame EXCEPT !.submitted = 0, !.awaited = 0]
                           /\ hist' = h
                           /\ UNCHANGED <<returned, metrics, ret>>
                      ELSE Raised(r.exc, pool_release(r.pool, r.producer), h)
    /\ UNCHANGED <<cfg, clock, messages, last_flush_time>>

\* one pass of the submission loop, lines 426-428
Submit ==
    \E outcome \in SubmitOutcomes :
        LET i == frame.submitted + 1
        IN  /\ pc = "submit"
            /\ IF outcome = "ok"
               THEN /\ frame' = [frame EXCEPT !.submitted = i]
                    /\ pc' = IF i = Len(returned.items) THEN "await" ELSE "submit"
                    /\ hist' = [hist EXCEPT !.fl.submits[i] = @ + 1]
                    /\ UNCHANGED <<pool, held, returned, metrics, ret>>
               ELSE Raised(outcome, pool_release(pool, Producer), hist)
            /\ UNCHANGED <<cfg, clock, messages, last_flush_time, conns>>

\* one pass of the await loop, lines 431-448, and after the last one the
\* break of line 452, which leaves the with block
Await ==
    \E outcome \in AwaitOutcomes :
        LET r == await_result(outcome, metrics, frame.flushed_count)
            k == frame.awaited + 1
            h == Attribute([hist EXCEPT !.fl.outcomes = Append(@, outcome)],
                           hist.fl.ids[k], metrics, r.metrics)
        IN  /\ pc = "await"
            /\ IF r.exc # None
               THEN Raised(r.exc, pool_release(pool, Producer), h)
               ELSE /\ metrics' = r.metrics
                    /\ frame' = [frame EXCEPT !.flushed_count = r.flushed_count,
                                              !.awaited = k]
                    /\ hist' = h
                    /\ IF k = frame.submitted
                       THEN /\ pool' = pool_release(pool, Producer)
                            /\ held' = {}
                            /\ pc' = "return"
                       ELSE UNCHANGED <<pool, held, pc>>
                    /\ UNCHANGED <<returned, ret>>
            /\ UNCHANGED <<cfg, clock, messages, last_flush_time, conns>>

\* flush returns flushed_count (line 470) and its caller goes on: send
\* returns True (line 398); close closes the pool and prints the metrics
\* (lines 497-503)
Return ==
    \E failing \in SUBSET Range(pool), now \in Times :
        LET v == frame.flushed_count
            r == pool_close(pool, conns, failing)
        IN  /\ pc = "return"
            /\ pc' = "idle"
            /\ frame' = NoFrame
            /\ returned' = ListCopy(<<>>)
            /\ clock' = now
            /\ IF frame.caller = "close"
               THEN /\ pool' = r.pool
                    /\ conns' = r.conns
                    /\ metrics' = print_metrics(metrics, now)
                    /\ ret' = Ended("close", r.logged, None, v)
                    /\ hist' = [hist EXCEPT !.closed = TRUE]
               ELSE /\ failing = {}
                    /\ now = clock
                    /\ ret' = IF frame.caller = "send" THEN Ended("send", TRUE, None, v)
                              ELSE Ended("flush", v, None, v)
                    /\ hist' = IF frame.caller = "send"
                               THEN [hist EXCEPT !.acceptedBytes = @ + frame.bytes]
                               ELSE hist
                    /\ UNCHANGED <<pool, conns, metrics>>
            /\ UNCHANGED <<cfg, messages, last_flush_time, held>>

Next ==
    \/ Send
    \/ FlushCall
    \/ CloseCall
    \/ PrintMetrics
    \/ FlushEnter
    \/ AttemptBegin
    \/ Submit
    \/ Await
    \/ Return

Spec == Init /\ [][Next]_vars

\* ------------------------------------------------------------------------
\* SpecRetry: flush on a batch that holds entries, with up to
\* MaxFlushRetries passes of the retry loop
\* ------------------------------------------------------------------------

RetryConfigs ==
    [ batch_size           : {MaxBatchSize + 1},
      batch_timeout_ms     : {BatchTimeoutMs},
      max_retries          : 0..MaxFlushRetries,
      retry_backoff_ms     : {RetryBackoffMs},
      connection_pool_size : {1},
      topic                : {DefaultTopic} ]

\* the send calls made before the flush: one to MaxBatchSize messages that
\* can be serialized
Pending ==
    UNION { [1..k -> {a \in SendArgs : Serialize(a[1]).ok}] : k \in 1..MaxBatchSize }

\* the metrics and the batch after the calls send(args[1]), send(args[2]),
\* ... made at time now, none of which makes the batch due
RECURSIVE SendAll(_, _, _, _, _)
SendAll(args, mt, msgs, now, c) ==
    IF args = <<>>
    THEN [ metrics |-> mt, messages |-> msgs ]
    ELSE LET r == send_prepare(Head(args)[1], Head(args)[2], mt, msgs, now, now, c)
         IN  SendAll(Tail(args), r.metrics, r.messages, now, c)

\* the publisher right after construction, or after construction and a
\* close(), once the pending messages were sent, all at time 1
InitRetry ==
    \E c \in RetryConfigs, args \in Pending, closedFirst \in BOOLEAN :
        LET p0 == [i \in 1..c.connection_pool_size |-> i]
            c0 == [i \in 1..c.connection_pool_size |-> [close_calls |-> 0]]
            cl == pool_close(p0, c0, {})
            m0 == IF closedFirst THEN print_metrics(NewMetrics(1), 1)
                  ELSE NewMetrics(1)
            r  == SendAll(args, m0, <<>>, 1, c)
        IN  /\ cfg = c
            /\ clock = 1
            /\ messages = r.messages
            /\ last_flush_time = 1
            /\ returned = ListCopy(<<>>)
            /\ pool = IF closedFirst THEN cl.pool ELSE p0
            /\ conns = IF closedFirst THEN cl.conns ELSE c0
            /\ held = {}
            /\ metrics = r.metrics
            /\ pc = "idle"
            /\ frame = NoFrame
            /\ ret = Ended("send", TRUE, None, NoFlush)
            /\ hist = [NoHist(c, 1) EXCEPT !.sends = Len(args),
                                           !.ids = [k \in 1..Len(args) |-> k],
                                           !.counted = [k \in 1..Len(args) |->
                                                           [ok |-> 0, failed |-> 0]],
                                           !.acceptedBytes = r.metrics.total_bytes,
                                           !.closed = closedFirst]

NextRetry ==
    \/ FlushCall
    \/ FlushEnter
    \/ AttemptBegin
    \/ Submit
    \/ Await
    \/ Return

SpecRetry == InitRetry /\ [][NextRetry]_vars

\* a call that has begun goes on: the waits inside it are bounded
\* (future.get(timeout=10), line 433; time.sleep(wait_time), line 461)
SpecLive ==
    /\ SpecRetry
    /\ WF_vars(FlushEnter)
    /\ WF_vars(AttemptBegin)
    /\ WF_vars(Submit)
    /\ WF_vars(Await)
    /\ WF_vars(Return)

\* ------------------------------------------------------------------------
\* SpecCtor: the construction of the pool, and the pool afterwards
\* ------------------------------------------------------------------------

\* one pass of the loop of _initialize_pool, lines 212-217, and the handler
\* of lines 219-221 when KafkaProducer(...) raises: the pool and the
\* connections afterwards, and the exception re-raised (None when none). The
\* handler logs and re-raises; it calls close on nothing.
initialize_step(p, cs, outcome) ==
    IF outcome = "ok"
    THEN [ pool |-> Append(p, Len(cs) + 1), conns |-> Append(cs, [close_calls |-> 0]),
           exc |-> None ]
    ELSE [ pool |-> p, conns |-> cs, exc |-> outcome ]

\* EnhancedKafkaProducer.__init__ has reached line 338: the metrics exist
\* (line 335), KafkaProducerPool.__init__ has made the empty deque (line 203)
InitCtor ==
    \E c \in Configs :
        /\ c.max_retries = 0
        /\ c.batch_size = 1
        /\ cfg = c
        /\ clock = 1
        /\ messages = <<>>
        /\ last_flush_time = 1
        /\ returned = ListCopy(<<>>)
        /\ pool = <<>>
        /\ conns = <<>>
        /\ held = {}
        /\ metrics = NewMetrics(1)
        /\ pc = "init"
        /\ frame = NoFrame
        /\ ret = Running
        /\ hist = [NoHist(c, 1) EXCEPT !.idleOrder = <<>>, !.runIdle = 0,
                                       !.ctorCalls = 0]

\* one KafkaProducer(...) call of _initialize_pool; after the last one the
\* constructors return (lines 218, 356, 339-341), and when it raises the
\* exception leaves them all (lines 221, 359)
CtorCreate ==
    \E outcome \in CreateOutcomes :
        LET r == initialize_step(pool, conns, outcome)
        IN  /\ pc = "init"
            /\ pool' = r.pool
            /\ conns' = r.conns
            /\ IF r.exc # None
               THEN /\ pc' = "failed"
                    /\ ret' = Ended("init", 0, r.exc, NoFlush)
                    /\ hist' = [hist EXCEPT !.ctorCalls = @ + 1]
               ELSE /\ pc' = IF Len(r.pool) = cfg.connection_pool_size
                             THEN "idle" ELSE "init"
                    /\ ret' = IF Len(r.pool) = cfg.connection_pool_size
                              THEN Ended("init", 0, None, NoFlush) ELSE ret
                    /\ hist' = [hist EXCEPT !.ctorCalls = @ + 1,
                                            !.idleOrder = r.pool,
                                            !.runIdle = Len(r.pool)]
            /\ UNCHANGED <<cfg, clock, batchVars, held, metrics, frame>>

\* the pool in use once it is constructed
CtorPoolUse == pc = "idle" /\ NextPool

NextCtor == CtorCreate \/ CtorPoolUse

SpecCtor == InitCtor /\ [][NextCtor]_vars

\* ------------------------------------------------------------------------
\* SpecConc: two callers of get_producer on one pool. The pool has no lock
\* (self.lock = None, line 204); the interpreter runs one bytecode at a time,
\* so the test of line 228, deque.popleft, KafkaProducer(...) and
\* deque.append are each one step, and the callers' steps interleave freely.
\* ------------------------------------------------------------------------

Callers == {"a", "b"}

\* the locals of one caller that is not inside get_producer
NoCall == [pc |-> "out", producer |-> NoProducer]

\* `if self.pool`, line 228: the branch taken
pool_test(p) == IF p # <<>> THEN "popleft" ELSE "create"

\* self.pool.popleft(), line 229: IndexError on an empty deque
deque_peek(p) == [ pool |-> p, producer |-> Head(p), exc |-> None ]

deque_popleft(p) ==
    IF p = <<>>
    THEN [ pool |-> p, producer |-> NoProducer, exc |-> "IndexError" ]
    ELSE [ pool |-> Tail(p), producer |-> Head(p), exc |-> None ]

\* KafkaProducer(...), lines 231-234
kafka_producer(cs, outcome) ==
    IF outcome = "ok"
    THEN [ conns |-> Append(cs, [close_calls |-> 0]), producer |-> Len(cs) + 1,
           exc |-> None ]
    ELSE [ conns |-> cs, producer |-> NoProducer, exc |-> outcome ]

\* the connections the callers hold inside their with blocks
HeldBy(f) == {f[t].producer : t \in {u \in Callers : f[u].pc = "body"}}

InitConc ==
    \E c \in Configs :
        /\ c.max_retries = 0
        /\ c.batch_size = 1
        /\ cfg = c
        /\ clock = 1
        /\ messages = <<>>
        /\ last_flush_time = 1
        /\ returned = ListCopy(<<>>)
        /\ pool = [i \in 1..c.connection_pool_size |-> i]
        /\ conns = [i \in 1..c.connection_pool_size |-> [close_calls |-> 0]]
        /\ held = {}
        /\ metrics = NewMetrics(1)
        /\ pc = "idle"
        /\ frame = [t \in Callers |-> NoCall]
        /\ ret = [op |-> "init", value |-> 0, raised |-> None, flush |-> NoFlush]
        /\ hist = NoHist(c, 1)

\* an exception leaves get_producer for caller t (lines 236-238; the finally
\* clause appends nothing, producer is None): the pass of flush that called
\* it ends in a handler of lines 454-468
ConcRaised(t, exc, sawIdle) ==
    /\ frame' = [frame EXCEPT ![t] = NoCall]
    /\ ret' = [ op |-> "acquire", caller |-> t, value |-> NoProducer, exc |-> exc,
                saw_idle |-> sawIdle ]

\* caller t has the connection: the with body runs
ConcYield(t, producer, sawIdle) ==
    /\ frame' = [frame EXCEPT ![t] = [pc |-> "body", producer |-> producer]]
    /\ ret' = [ op |-> "acquire", caller |-> t, value |-> producer, exc |-> None,
                saw_idle |-> sawIdle ]

\* caller t enters get_producer and tests the deque, lines 226-228
ConcTest ==
    \E t \in Callers :
        /\ frame[t].pc = "out"
        /\ pool = <<>> =>
              hist.ctorCalls + Cardinality({u \in Callers : frame[u].pc = "create"})
                 < MaxConns
        /\ frame' = [frame EXCEPT ![t].pc = pool_test(pool)]
        /\ UNCHANGED <<cfg, clock, batchVars, poolVars, metrics, pc, ret, hist>>

\* caller t runs line 229
ConcPopleft ==
    \E t \in Callers :
        LET r == deque_popleft(pool)
        IN  /\ frame[t].pc = "popleft"
            /\ pool' = r.pool
            /\ IF r.exc # None
               THEN ConcRaised(t, r.exc, TRUE)
               ELSE ConcYield(t, r.producer, TRUE)
            /\ held' = HeldBy(frame')
            /\ UNCHANGED <<cfg, clock, batchVars, conns, metrics, pc, hist>>

\* caller t runs lines 231-234
ConcCreate ==
    \E t \in Callers, outcome \in CreateOutcomes :
        LET r == kafka_producer(conns, outcome)
        IN  /\ frame[t].pc = "create"
            /\ conns' = r.conns
            /\ IF r.exc # None
               THEN ConcRaised(t, r.exc, FALSE)
               ELSE ConcYield(t, r.producer, FALSE)
            /\ held' = HeldBy(frame')
            /\ hist' = [hist EXCEPT !.ctorCalls = @ + 1]
            /\ UNCHANGED <<cfg, clock, batchVars, pool, metrics, pc>>

\* caller t leaves its with block, lines 239-241
ConcRelease ==
    \E t \in Callers :
        /\ frame[t].pc = "body"
        /\ pool' = pool_release(pool, frame[t].producer)
        /\ frame' = [frame EXCEPT ![t] = NoCall]
        /\ held' = HeldBy(frame')
        /\ ret' = [ op |-> "release", caller |-> t, value |-> frame[t].producer,
                    exc |-> None, saw_idle |-> FALSE ]
        /\ UNCHANGED <<cfg, clock, batchVars, conns, metrics, pc, hist>>

NextConc == ConcTest \/ ConcPopleft \/ ConcCreate \/ ConcRelease

SpecConc == InitConc /\ [][NextConc]_vars

\* ------------------------------------------------------------------------
\* The accumulator's claims (SpecBatch)
\* ------------------------------------------------------------------------

\* C1: the value add and should_flush return is true exactly when the batch
\* holds at least max_size entries or at least timeout_ms have passed since
\* the last drain (since construction when nothing was drained yet); an add
\* does not restart that age.
C1_ShouldFlushExact ==
    ret.op \in {"add", "should_flush"} =>
        (ret.value <=> \/ Len(messages) >= cfg.batch_size
                       \/ ret.at - hist.drainClock >= cfg.batch_timeout_ms)

\* an add, after an earlier drain, that is due by age alone
C1_Witness ==
    /\ ret.op = "add"
    /\ ret.value
    /\ Len(messages) < cfg.batch_size
    /\ hist.drainClock > 1

\* C2: a drain hands back exactly the entries added since the previous
\* drain, in the order they were added, and leaves the batch empty with its
\* age restarted; size() right after a drain is 0; the list handed back is
\* not changed by what is added later.
C2_DrainExact ==
    /\ returned.items = hist.drained
    /\ ret.op = "flush" =>
          /\ messages = <<>>
          /\ last_flush_time = ret.at
          /\ hist.added = <<>>
    /\ (ret.op = "size" /\ ret.after = "flush") => ret.value = 0

\* an add that follows a drain of two different entries
C2_Witness ==
    /\ ret.op = "add"
    /\ Len(messages) = 1
    /\ Len(returned.items) = 2
    /\ returned.items[1] # returned.items[2]
    /\ returned.items = hist.drained

\* ------------------------------------------------------------------------
\* The pool's claims (SpecPool)
\* ------------------------------------------------------------------------

\* C10: entering get_producer never waits: with an idle connection it takes
\* the one idle the longest and creates nothing, with none it makes exactly
\* one KafkaProducer(...) call; so of the entries made since the last
\* release, those beyond the N connections idle then each made one creation
\* and the others none (N + 1 entries: exactly one).
C10_AcquireFifo ==
    /\ ret.op = "acquire" =>
          /\ ret.idle_before > 0 =>
                /\ ret.value = ret.oldest
                /\ ret.created = 0
                /\ ret.exc = None
          /\ ret.idle_before = 0 => ret.created = 1
    /\ hist.runCreated =
          IF hist.runAcquires > hist.runIdle THEN hist.runAcquires - hist.runIdle ELSE 0
    /\ hist.ctorCalls < MaxConns => ENABLED PoolAcquire

\* two connections were idle and three entries followed without a release:
\* the third created a connection
C10_Witness ==
    /\ ret.op = "acquire"
    /\ hist.runIdle = 2
    /\ hist.runAcquires = 3
    /\ hist.runCreated = 1
    /\ ret.exc = None
    /\ held = {1, 2, 3}
    /\ Len(conns) = 3

\* C11 as claimed: the construction of the pool ends either with exactly
\* connection_pool_size idle open connections, or by raising the error of
\* the failed creation with every connection created before it closed.
C11_CtorTeardown ==
    /\ (ret.op = "init" /\ ret.raised = None) =>
          /\ Len(pool) = cfg.connection_pool_size
          /\ \A i \in 1..Len(conns) : conns[i].close_calls = 0
    /\ pc = "failed" =>
          /\ ret.raised \in CreateOutcomes \ {"ok"}
          /\ \A i \in 1..Len(conns) : conns[i].close_calls >= 1

\* ------------------------------------------------------------------------
\* The publisher's claims (Spec)
\* ------------------------------------------------------------------------

\* the number of elements of a sequence equal to x
RECURSIVE Count(_, _)
Count(q, x) == IF q = <<>> THEN 0 ELSE (IF Head(q) = x THEN 1 ELSE 0) + Count(Tail(q), x)

\* a call has just returned and it ran flush to its end
FlushEnded == pc = "idle" /\ ret.flush # NoFlush

\* the flush that just ended awaited every entry it drained, and every
\* future ended with record metadata
AllAccepted ==
    /\ hist.fl.n > 0
    /\ Len(hist.fl.outcomes) = hist.fl.n
    /\ Count(hist.fl.outcomes, "success") = hist.fl.n

\* the flush that just ended reached the await loop (a pass submitted every
\* entry), and no future it awaited ended with an unexpected exception
AwaitedCleanly ==
    /\ hist.fl.outcomes # <<>>
    /\ \A i \in 1..Len(hist.fl.outcomes) :
          hist.fl.outcomes[i] \in {"success", "KafkaTimeoutError", "KafkaError"}

\* what a counter gained during the flush that just ended
Gained(counter) == metrics[counter] - hist.fl.pre[counter]

\* C3: the batch never holds more than batch_size entries, and a send after
\* which the batch is due (by size or by age) has run flush before it
\* returns: the batch is empty then, however the flush ended.
C3_SizeBounded ==
    /\ Len(messages) <= cfg.batch_size
    /\ (pc = "idle" /\ ret.op = "send" /\ hist.snd.ok /\ hist.snd.due) =>
          /\ ret.flush # NoFlush
          /\ messages = <<>>

\* a send that made a batch of two due, whose flush delivered nothing
C3_Witness ==
    /\ pc = "idle"
    /\ ret.op = "send"
    /\ hist.snd.due
    /\ hist.fl.n = 2
    /\ ret.flush = 0
    /\ hist.fl.excs # <<>>
    /\ messages = <<>>

\* C4: a flush all of whose k entries the broker accepted returns k and
\* adds k to successful_messages; and between calls total_bytes is the sum
\* of the serialized sizes of the messages send returned True for.
C4_SuccessCount ==
    /\ (FlushEnded /\ AllAccepted) =>
          /\ ret.flush = hist.fl.n
          /\ Gained("successful_messages") = hist.fl.n
    /\ pc = "idle" => metrics.total_bytes = hist.acceptedBytes

\* a flush of two messages of different sizes, accepted on the second pass
C4_Witness ==
    /\ FlushEnded
    /\ hist.fl.outcomes = <<"success", "success">>
    /\ hist.fl.excs = <<"KafkaError">>
    /\ ret.flush = 2
    /\ metrics.total_bytes = 13

\* C5: in a flush that reached the await loop, where futures end with
\* record metadata, a timeout or a broker error, each drained entry is
\* awaited once and counted once, whatever happened to the others: a success
\* in successful_messages and in the value returned, a timeout in
\* timeout_errors and failed_messages, a broker error in failed_messages and
\* error_count; nothing is awaited a second time, so the value returned plus
\* the gain of failed_messages is the number of entries drained.
C5_PerMessage ==
    (FlushEnded /\ AwaitedCleanly) =>
        LET ok      == Count(hist.fl.outcomes, "success")
            timeout == Count(hist.fl.outcomes, "KafkaTimeoutError")
            broker  == Count(hist.fl.outcomes, "KafkaError")
        IN  /\ Len(hist.fl.outcomes) = hist.fl.n
            /\ ret.flush = ok
            /\ Gained("successful_messages") = ok
            /\ Gained("timeout_errors") = timeout
            /\ Gained("failed_messages") = timeout + broker
            /\ Gained("error_count") = broker
            /\ ret.flush + Gained("failed_messages") = hist.fl.n

\* one of two entries timed out: flush returned 1
C5_Witness ==
    /\ FlushEnded
    /\ hist.fl.outcomes = <<"KafkaTimeoutError", "success">>
    /\ ret.flush = 1
    /\ Gained("timeout_errors") = 1
    /\ Gained("failed_messages") = 1

\* the flush that just ended drained entries and every pass the
\* configuration allows ended with a connection-level error
EveryAttemptFailed ==
    /\ FlushEnded
    /\ hist.fl.n > 0
    /\ hist.fl.attempts = cfg.max_retries
    /\ Len(hist.fl.excs) = cfg.max_retries
    /\ \A i \in 1..Len(hist.fl.excs) : Catches("KafkaError", hist.fl.excs[i])

\* C6 as claimed: such a flush adds max_retries to connection_errors and
\* max_retries - 1 to retry_count, returns 0 and does not put the entries
\* back, for every max_retries >= 0.
C6_Original ==
    EveryAttemptFailed =>
        /\ Gained("connection_errors") = cfg.max_retries
        /\ Gained("retry_count") = cfg.max_retries - 1
        /\ ret.flush = 0
        /\ messages = <<>>

\* C6 as amended: such a flush adds max_retries to connection_errors,
\* returns 0 and does not put the entries back; it adds max_retries - 1 to
\* retry_count when max_retries >= 1, and nothing when max_retries = 0 (no
\* pass is made then).
C6_Amended ==
    EveryAttemptFailed =>
        /\ Gained("connection_errors") = cfg.max_retries
        /\ Gained("retry_count") =
              IF cfg.max_retries >= 1 THEN cfg.max_retries - 1 ELSE 0
        /\ Len(hist.fl.sleeps) = Gained("retry_count")
        /\ ret.flush = 0
        /\ messages = <<>>

\* two passes, the first ended while submitting, the second too
C6_Witness ==
    /\ EveryAttemptFailed
    /\ cfg.max_retries = 2
    /\ hist.fl.n = 2
    /\ Gained("connection_errors") = 2
    /\ Gained("retry_count") = 1

\* C7: a send whose message cannot be serialized returns False, raises
\* nothing, adds 1 to failed_messages and to error_count, and leaves the
\* batch as it was: nothing appended, nothing drained, no flush.
C7_SerializationFailure ==
    (pc = "idle" /\ ret.op = "send" /\ ~hist.snd.ok) =>
        /\ ret.value = FALSE
        /\ ret.raised = None
        /\ metrics.failed_messages = hist.snd.pre.failed_messages + 1
        /\ metrics.error_count = hist.snd.pre.error_count + 1
        /\ messages = hist.snd.messages
        /\ ret.flush = NoFlush

\* such a send while the batch holds an entry and is due by age
C7_Witness ==
    /\ pc = "idle"
    /\ ret.op = "send"
    /\ ~hist.snd.ok
    /\ hist.snd.due
    /\ Len(messages) = 1
    /\ ret.value = FALSE

\* C8 as claimed: end_time is set once, when close first returns; no later
\* close or print_metrics changes it.
C8_EndTimeOnce ==
    [][hist.closed => metrics'.end_time = metrics.end_time]_vars

\* C9: send, flush and close raise nothing, whatever fails inside them:
\* send returns a boolean, flush a count, close returns.
C9_NothingEscapes ==
    /\ ret.raised = None
    /\ ret.op = "send" => ret.value \in BOOLEAN
    /\ ret.op = "flush" => ret.value \in Nat

\* a close whose flush saw a connection-level error and then an unexpected
\* one
C9_Witness ==
    /\ pc = "idle"
    /\ ret.op = "close"
    /\ hist.fl.excs = <<"KafkaError", "Exception">>
    /\ ret.raised = None

\* the number of places of a sequence that hold x
Occurrences(q, x) == Cardinality({k \in 1..Len(q) : q[k] = x})

\* C12: at the end of every pass of flush's retry loop, however the pass
\* ended, and once flush has returned, the publisher holds no connection and
\* every connection get_producer yielded in this flush is idle in the pool
\* again, exactly once: one taken from the pool, one created on demand, one
\* whose send or future failed.
C12_ScopedRelease ==
    /\ pc \in {"idle", "flush", "attempt", "return"} => held = {}
    /\ pc \in {"submit", "await"} =>
          /\ Cardinality(held) = 1
          /\ held \cap Range(pool) = {}
    /\ pc \in {"attempt", "return"} =>
          \A k \in 1..Len(hist.fl.acquired) :
              Occurrences(pool, hist.fl.acquired[k]) = 1
    /\ (pc = "idle" /\ ret.op \in {"send", "flush"}) =>
          \A k \in 1..Len(hist.fl.acquired) :
              Occurrences(pool, hist.fl.acquired[k]) = 1

\* after a close, a flush created a connection on demand, its first pass
\* ended with a connection-level error while submitting and its second with
\* an unexpected error: the connection is idle in the pool
C12_Witness ==
    /\ pc = "idle"
    /\ ret.op \in {"send", "flush"}
    /\ hist.closed
    /\ hist.fl.excs = <<"KafkaError", "Exception">>
    /\ Len(hist.fl.acquired) = 2
    /\ hist.fl.acquired[1] > cfg.connection_pool_size
    /\ hist.fl.acquired[1] \in Range(pool)

\* C14: once close() has returned, whatever calls came before and however
\* its flush ended, the batch is empty, no connection is idle in the pool,
\* and close has been called exactly once on every connection there is: once
\* on each one that was in the pool, also when the close of another one
\* raised.
C14_AfterClose ==
    (pc = "idle" /\ ret.op = "close") =>
        /\ ret.raised = None
        /\ messages = <<>>
        /\ pool = <<>>
        /\ held = {}
        /\ \A i \in 1..Len(conns) : conns[i].close_calls = 1

\* a close whose flush lost its batch to an unexpected error, and in which
\* the close of one of the two connections raised
C14_Witness ==
    /\ pc = "idle"
    /\ ret.op = "close"
    /\ hist.fl.n > 0
    /\ hist.fl.excs = <<"Exception">>
    /\ ret.flush = 0
    /\ ret.value = 1
    /\ Len(conns) = 2

\* the counters of ProducerMetrics (lines 64-74, the two timestamps apart)
Counters ==
    { "total_messages", "successful_messages", "failed_messages", "total_bytes",
      "batch_count", "error_count", "retry_count", "connection_errors",
      "timeout_errors" }

\* C15: a flush that drained nothing returns 0, enters get_producer in no
\* pass and leaves every counter as it was; a flush that drained entries
\* adds exactly 1 to batch_count, from its first pass to its return,
\* however many passes and retries it makes.
C15_BatchCountOnce ==
    /\ (FlushEnded /\ hist.fl.n = 0) =>
          /\ ret.flush = 0
          /\ hist.fl.attempts = 0
          /\ hist.fl.acquired = <<>>
          /\ \A c \in Counters : Gained(c) = 0
    /\ (pc \in {"attempt", "submit", "await"}) =>
          /\ hist.fl.n > 0
          /\ Gained("batch_count") = 1
    /\ (pc = "return" \/ FlushEnded) =>
          Gained("batch_count") = IF hist.fl.n > 0 THEN 1 ELSE 0

\* a flush() on an empty batch, called after a flush that needed a retry
C15_Witness ==
    /\ FlushEnded
    /\ ret.op = "flush"
    /\ ret.value = 0
    /\ hist.fl.n = 0
    /\ metrics.batch_count = 1
    /\ metrics.retry_count = 1
    /\ metrics.successful_messages = 1

\* a pass of the retry loop other than the first begins
FurtherAttempt ==
    /\ pc = "attempt"
    /\ hist.fl.attempts >= 1
    /\ hist'.fl.attempts = hist.fl.attempts + 1

\* C16: a flush makes at most max_retries passes and returns; a pass other
\* than the first begins only when the pass before it ended with a
\* KafkaError raised by get_producer or by producer.send, before any future
\* was awaited; after a pass that awaited a future, and after a pass ended
\* by any other exception, the loop is left.
C16_BoundedAttempts ==
    /\ [](hist.fl.attempts <= cfg.max_retries)
    /\ [][FurtherAttempt =>
             /\ Len(hist.fl.excs) = hist.fl.attempts
             /\ \A k \in 1..Len(hist.fl.excs) : Catches("KafkaError", hist.fl.excs[k])
             /\ hist.fl.outcomes = <<>>]_vars
    /\ [](hist.fl.outcomes # <<>> => pc \in {"await", "return", "idle"})
    /\ (pc # "idle") ~> (pc = "idle")

\* a flush left at its second pass by an unexpected error of producer.send,
\* with two more passes allowed
C16_Witness ==
    /\ pc = "return"
    /\ cfg.max_retries = 4
    /\ hist.fl.attempts = 2
    /\ hist.fl.excs = <<"KafkaError", "Exception">>
    /\ hist.fl.outcomes = <<>>

\* C18 as claimed: a send whose message cannot be serialized leaves
\* total_messages and total_bytes as they were.
C18_CountAfterSerialization ==
    (pc = "idle" /\ ret.op = "send" /\ ~hist.snd.ok) =>
        /\ metrics.total_messages = hist.snd.pre.total_messages
        /\ metrics.total_bytes = hist.snd.pre.total_bytes

\* a flush that drained entries is in its retry loop or has just returned
InFlush == pc \in {"attempt", "submit", "await", "return"} \/ FlushEnded

\* the passes of the flush, by their 0-based index, that ended with a
\* KafkaError while a later pass was still allowed
Retried ==
    {i \in 0..(Len(hist.fl.excs) - 1) :
        /\ Catches("KafkaError", hist.fl.excs[i + 1])
        /\ i < cfg.max_retries - 1}

\* C17: the k-th time.sleep of a flush follows the pass of index k - 1 and
\* lasts retry_backoff_ms * 2^(k-1) milliseconds; the flush sleeps, and adds
\* 1 to retry_count, exactly after each pass that ended with a KafkaError
\* while passes remained, and not after the last pass allowed; so when it
\* returns retry_count has gained at most the number of passes made minus 1.
C17_Backoff ==
    InFlush =>
        /\ \A k \in 1..Len(hist.fl.sleeps) :
              hist.fl.sleeps[k] = cfg.retry_backoff_ms * Pow2(k - 1)
        /\ Len(hist.fl.sleeps) = Cardinality(Retried)
        /\ Gained("retry_count") = Cardinality(Retried)
        /\ Retried \subseteq 0..(cfg.max_retries - 2)
        /\ (pc = "return" \/ FlushEnded) =>
              Gained("retry_count") <=
                 IF hist.fl.attempts >= 1 THEN hist.fl.attempts - 1 ELSE 0

\* four passes allowed and each ended with a KafkaError: three sleeps, of
\* once, twice and four times the base
C17_Witness ==
    /\ pc = "return"
    /\ cfg.max_retries = 4
    /\ hist.fl.attempts = 4
    /\ Len(hist.fl.excs) = 4
    /\ hist.fl.sleeps = <<RetryBackoffMs, 2 * RetryBackoffMs, 4 * RetryBackoffMs>>
    /\ Gained("retry_count") = 3
    /\ Gained("connection_errors") = 4

\* C20 as claimed: within one flush, producer.send returns a future for
\* each drained entry at most once, over all the passes of the retry loop.
C20_NoResubmit ==
    \A k \in 1..Len(hist.fl.submits) : hist.fl.submits[k] <= 1

\* ------------------------------------------------------------------------
\* The claims about two callers (SpecConc)
\* ------------------------------------------------------------------------

\* C13: in every interleaving of the steps of two callers of get_producer,
\* no connection is in the with block of both, none is at once held and
\* idle in the pool, and none is in the pool twice.
C13_ExclusiveOwnership ==
    /\ \A t, u \in Callers :
          (t # u /\ frame[t].pc = "body" /\ frame[u].pc = "body") =>
              frame[t].producer # frame[u].producer
    /\ \A t \in Callers :
          frame[t].pc = "body" =>
              /\ frame[t].producer # NoProducer
              /\ Occurrences(pool, frame[t].producer) = 0
    /\ \A x \in 1..Len(conns) : Occurrences(pool, x) <= 1

\* both callers saw the two idle connections and took one each
C13_Witness ==
    /\ \A t \in Callers : frame[t].pc = "body"
    /\ ret.op = "acquire"
    /\ ret.saw_idle
    /\ pool = <<>>
    /\ Len(conns) = 2
    /\ held = {1, 2}

\* C19 as claimed: a caller that found the deque non-empty at line 228
\* obtains a connection, whatever the other caller does in between.
C19_ConcurrentAcquire ==
    (ret.op = "acquire" /\ ret.saw_idle) =>
        /\ ret.exc = None
        /\ ret.value # NoProducer

\* ------------------------------------------------------------------------
\* The accounting of messages (Spec)
\* ------------------------------------------------------------------------

\* the sum of a field over the send calls made so far
RECURSIVE SumCounted(_, _)
SumCounted(q, field) ==
    IF q = <<>> THEN 0 ELSE Head(q)[field] + SumCounted(Tail(q), field)

\* C21: whatever calls were made and however they ended, successful_messages
\* plus failed_messages plus the size of the batch is at most
\* total_messages; every increment of successful_messages and of
\* failed_messages is on account of one message, and no message has more
\* than one of them: none is counted twice, none as both a success and a
\* failure.
C21_Accounting ==
    /\ metrics.successful_messages + metrics.failed_messages + Len(messages)
          <= metrics.total_messages
    /\ metrics.total_messages = Len(hist.counted)
    /\ metrics.successful_messages = SumCounted(hist.counted, "ok")
    /\ metrics.failed_messages = SumCounted(hist.counted, "failed")
    /\ \A i \in 1..Len(hist.counted) :
          hist.counted[i].ok + hist.counted[i].failed <= 1

\* two messages sent; the flush made by the second send lost its first pass
\* to a connection-level error, and in its second pass the first message
\* timed out and the second was delivered
C21_Witness ==
    /\ pc = "idle"
    /\ ret.op = "send"
    /\ hist.fl.excs = <<"KafkaError">>
    /\ hist.fl.outcomes = <<"KafkaTimeoutError", "success">>
    /\ hist.counted = <<[ok |-> 0, failed |-> 1], [ok |-> 1, failed |-> 0]>>
    /\ metrics.total_messages = 2
    /\ messages = <<>>

=============================================================================
